---- MODULE Spec2Model ----
(***************************************************************************)
(* Live viewer: the GraphVisualizer (graph.js), the message handlers of    *)
(* the main application (main.js) and the inbound message stream.          *)
(*                                                                         *)
(* The state is the GraphVisualizer's fields, the items held by the G6     *)
(* graph instance, the router's isRunning flag and the position inside     *)
(* updateStep.  JavaScript runs one handler at a time: while pc # "idle"   *)
(* no other handler is enabled.                                            *)
(*                                                                         *)
(* The G6 graph is modelled by what GraphVisualizer relies on: findById    *)
(* finds an item by its id; data/render drop the former items and add the  *)
(* nodes, then the edges, skipping an id already present and an edge       *)
(* whose source or target is no node; updateItem merges the given style    *)
(* into the item's drawn style; clear removes every item.                  *)
(*                                                                         *)
(* Start payloads are model lists of the protocol's shape (on these        *)
(* convertModelsToG6Data does not throw).  The step info panel of          *)
(* UIManager is written by the handlers and read by none of them; it is    *)
(* not part of this state.                                                 *)
(*                                                                         *)
(* Spec is the session alone: every message is well-formed and handled as  *)
(* it is drawn.  SpecClient and SpecConnect put the WebSocketClient        *)
(* (ui.js) and handleConnect (main.js) in front of it: sockets are created *)
(* by connect(), their open, error, close and message events are queued by *)
(* the browser and run as callbacks one at a time.  SpecClient has one     *)
(* connection, whose frames may be unparseable, of a type without handler, *)
(* or lack their step or result object; SpecConnect has connections made,  *)
(* failing and closed while well-formed frames flow.  The connect button   *)
(* is taken to be clickable whenever it is enabled (the overlay's styling  *)
(* is not part of the sources).                                            *)
(*                                                                         *)
(* SpecAdapter is convertModelsToG6Data by itself: a models array is drawn *)
(* from InputModels and converted once.  SpecPanel is the session together *)
(* with the statistics section of UIManager, which handleStartMessage      *)
(* hides and handleEndMessage shows and fills; the other specifications    *)
(* leave the section aside.  A text of the section is modelled by the      *)
(* number or the word it shows, and the section starts hidden with         *)
(* nothing reported (the page's markup is not part of the sources).        *)
(*                                                                         *)
(* SpecScale is one run in which an element is visited up to MaxCount      *)
(* times, past the upper end of the colour scale.  SpecText is the session *)
(* together with the output text and the error texts the handlers write,   *)
(* the output text being the list of the texts appended.  SpecHandshake    *)
(* is handleConnect together with the connect button and the error alert,  *)
(* and a record of how far the call made last has come.                    *)
(***************************************************************************)
EXTENDS Integers, Sequences, FiniteSets, TLC

VARIABLES
    models,         \* GraphVisualizer.models
    visitCounts,    \* GraphVisualizer.visitCounts (object: id -> count)
    currentStepId,  \* GraphVisualizer.currentStepId
    failedStepId,   \* GraphVisualizer.failedStepId
    items,          \* the items of the G6 graph: id -> [type, fill, stroke, lineWidth]
    isRunning,      \* main.js: let isRunning
    pc,             \* position inside the handler being run ("idle" between handlers)
    arg,            \* the stepId argument of the updateStep call in progress
    calls,          \* G6 mutations issued so far by the handler being run / run last
    last,           \* the inbound message (or operator call) handled last
    before,         \* the session state when that handling began
    stepStarts,     \* per identifier: step-start messages referencing it since the last start/clear
    ws,             \* WebSocketClient.ws: the socket created last (0: null)
    connected,      \* WebSocketClient.connected
    readyState,     \* per socket: "none" (not created), "connecting", "open", "failed", "closed"
    sent,           \* per socket: the outbound messages passed to its send()
    inbox,          \* message events queued by the browser and not yet run
    arrived,        \* number of message events queued so far
    taken,          \* number of the message event run last
    origin,         \* the socket that event came from (0: none run yet)
    outcome,        \* how ws.onmessage ended for that event
    caught,         \* the catch clause of ws.onmessage has run at least once
    connectPc,      \* position inside handleConnect ("ready": the button is enabled)
    rawModels,      \* the argument of a call of convertModelsToG6Data
    g6Data,         \* what that call has returned, once it has
    elements,       \* UIManager.elements: the statistics section and its fields
    lastStatistics, \* message.statistics of the end message handled last
    textAreas,      \* UIManager.elements: the output text and the error texts
    lastResult,     \* what the message handled last carried for them
    connectUi,      \* UIManager.elements: the connect button and the error alert
    attempt         \* the handleConnect call made last: how far it has come

sessionVars == <<models, visitCounts, currentStepId, failedStepId, items, isRunning,
                 pc, arg, calls, last, before, stepStarts>>

clientVars == <<ws, connected, readyState, sent, inbox, arrived, taken, origin,
                outcome, caught, connectPc>>

adapterVars == <<rawModels, g6Data>>

panelVars == <<elements, lastStatistics>>

textVars == <<textAreas, lastResult>>

connectVars == <<connectUi, attempt>>

\* what the session's handlers leave alone, and what the client's callbacks do
offSession == <<clientVars, adapterVars, panelVars, textVars, connectVars>>
offClient == <<adapterVars, panelVars, textVars, connectVars>>

vars == <<sessionVars, clientVars, adapterVars, panelVars, textVars, connectVars>>

-----------------------------------------------------------------------------
(* Bounds of the model *)

\* most step-start messages handled between two start messages / clear() calls
MaxSteps == 2
\* largest sum of the visit counts
MaxVisits == 3
\* most sockets created by connect() (SpecClient)
MaxSockets == 2
\* most message events delivered by the sockets (SpecClient)
MaxMessages == 3
\* most vertices, and most edges, of a sub-model given to
\* convertModelsToG6Data (SpecAdapter)
MaxElements == 2
\* largest visit count of an element (SpecScale)
MaxCount == 6
\* most texts appended to the output text between two start messages (SpecText)
MaxLines == 2

-----------------------------------------------------------------------------
(* JavaScript values *)

null == "<null>"

\* JavaScript truthiness of a string-or-absent value
Truthy(x) == x # null /\ x # ""

\* a || b
Or(a, b) == IF Truthy(a) THEN a ELSE b

EmptyObject == [k \in {} |-> 0]

\* (obj[k] || 0)
CountOf(obj, k) == IF k \in DOMAIN obj THEN obj[k] ELSE 0

RECURSIVE SumOf(_, _)
SumOf(f, S) == IF S = {} THEN 0
               ELSE LET k == CHOOSE k \in S : TRUE IN f[k] + SumOf(f, S \ {k})

-----------------------------------------------------------------------------
(* Colours, as <<r, g, b>> *)

White        == <<255, 255, 255>>   \* '#ffffff'
NodeStroke   == <<91, 143, 249>>    \* '#5B8FF9'
EdgeStroke   == <<148, 163, 184>>   \* '#94a3b8'
ScaleFrom    == <<209, 244, 224>>   \* '#d1f4e0'
ScaleTo      == <<16, 185, 129>>    \* '#10b981'
FailedFill   == <<239, 68, 68>>     \* '#ef4444'
FailedStroke == <<220, 38, 38>>     \* '#dc2626'

\* upper end of the colour scale's domain
ScaleDomainMax == 5

\* MUTANT: the scale without clamp(true)
colorScaleUnclamped(n) ==
    LET ch(a, b) == (2 * (a * ScaleDomainMax + (b - a) * n) + ScaleDomainMax)
                        \div (2 * ScaleDomainMax)
    IN  <<ch(ScaleFrom[1], ScaleTo[1]), ch(ScaleFrom[2], ScaleTo[2]),
          ch(ScaleFrom[3], ScaleTo[3])>>

\* d3.scaleLinear().domain([0, 5]).range([from, to]).clamp(true)
colorScale(n) ==
    LET k == IF n > ScaleDomainMax THEN ScaleDomainMax ELSE IF n < 0 THEN 0 ELSE n
        ch(a, b) == (2 * (a * ScaleDomainMax + (b - a) * k) + ScaleDomainMax)
                        \div (2 * ScaleDomainMax)
    IN  <<ch(ScaleFrom[1], ScaleTo[1]), ch(ScaleFrom[2], ScaleTo[2]),
          ch(ScaleFrom[3], ScaleTo[3])>>

-----------------------------------------------------------------------------
(* Model payloads of the inbound start message *)

Vertex(id, name) == [id |-> id, name |-> name]
Edge(id, name, s, t) == [id |-> id, name |-> name, sourceVertexId |-> s, targetVertexId |-> t]

\* {name?, vertices?, edges?}
SubModel(name, hasV, V, hasE, E) ==
    [name |-> name, hasModels |-> FALSE, models |-> <<>>,
     hasVertices |-> hasV, vertices |-> V, hasEdges |-> hasE, edges |-> E]

\* {name?, models: [SubModel, ...]}
Container(name, subs) ==
    [name |-> name, hasModels |-> TRUE, models |-> subs,
     hasVertices |-> FALSE, vertices |-> <<>>, hasEdges |-> FALSE, edges |-> <<>>]

\* v1 "A", v2 "B", e1 "go" v1 -> v2, as one flat model
ModelAB == SubModel(null, TRUE, <<Vertex("v1", "A"), Vertex("v2", "B")>>,
                    TRUE, <<Edge("e1", "go", "v1", "v2")>>)

\* a second model sharing no element with the first, nested one level
ModelCD == Container("second",
               <<SubModel(null, TRUE, <<Vertex("v3", null), Vertex("v4", "D")>>,
                          TRUE, <<Edge("e2", null, "v3", "v4")>>)>>)

\* the start messages: which have a models field, and what it holds
StartPayloads == {"AB", "CD", "empty", "absent"}
HasModelsField(p) == p # "absent"
ModelsOf(p) == IF p = "AB" THEN <<ModelAB>>
               ELSE IF p = "CD" THEN <<ModelCD>>
               ELSE <<>>

\* identifiers a step-start may carry as step.id / step.name
StepIds   == {null, "v1", "A", "go", "v3"}
StepNames == {null, "A"}
\* identifiers a step-end result or an error's step may carry
FailIds   == {null, "v2", "A", "go"}

Refs == (StepIds \cup StepNames \cup FailIds) \ {null}

-----------------------------------------------------------------------------
(* GraphVisualizer.convertModelsToG6Data *)

\* actualModel.vertices?.find(v => v.id === rawId)?.name
FoundVertexName(actualModel, rawId) ==
    IF ~actualModel.hasVertices THEN null
    ELSE LET V == actualModel.vertices
             hits == {i \in 1..Len(V) : V[i].id = rawId}
         IN  IF hits = {} THEN null
             ELSE V[CHOOSE i \in hits : \A j \in hits : i <= j].name

\* MUTANT: a node keeps the raw id of its vertex
NodesOfSubModelByRawId(actualModel, modelName) ==
    IF ~actualModel.hasVertices THEN <<>>
    ELSE [i \in 1..Len(actualModel.vertices) |->
            LET vertex == actualModel.vertices[i]
            IN  [id |-> vertex.id,
                 label |-> Or(vertex.name, vertex.id),
                 originalId |-> vertex.id,
                 modelName |-> modelName]]

\* if (actualModel.vertices) actualModel.vertices.forEach(vertex => nodes.push(...))
NodesOfSubModel(actualModel, modelName) ==
    IF ~actualModel.hasVertices THEN <<>>
    ELSE [i \in 1..Len(actualModel.vertices) |->
            LET vertex == actualModel.vertices[i]
            IN  [id |-> Or(vertex.name, vertex.id),
                 label |-> Or(vertex.name, vertex.id),
                 originalId |-> vertex.id,
                 modelName |-> modelName]]

\* MUTANT: an edge keeps the ends it declares
EdgesOfSubModelDeclaredEnds(actualModel, modelName) ==
    IF ~actualModel.hasEdges THEN <<>>
    ELSE [i \in 1..Len(actualModel.edges) |->
            LET edge == actualModel.edges[i]
            IN  [id |-> Or(edge.name, edge.id),
                 source |-> edge.sourceVertexId,
                 target |-> edge.targetVertexId,
                 label |-> Or(edge.name, ""),
                 originalId |-> edge.id,
                 modelName |-> modelName]]

\* if (actualModel.edges) actualModel.edges.forEach(edge => edges.push(...))
EdgesOfSubModel(actualModel, modelName) ==
    IF ~actualModel.hasEdges THEN <<>>
    ELSE [i \in 1..Len(actualModel.edges) |->
            LET edge == actualModel.edges[i]
            IN  [id |-> Or(edge.name, edge.id),
                 source |-> Or(FoundVertexName(actualModel, edge.sourceVertexId),
                               edge.sourceVertexId),
                 target |-> Or(FoundVertexName(actualModel, edge.targetVertexId),
                               edge.targetVertexId),
                 label |-> Or(edge.name, ""),
                 originalId |-> edge.id,
                 modelName |-> modelName]]

\* model.models || [model]
ActualModels(model) == IF model.hasModels THEN model.models ELSE <<model>>

RECURSIVE Concat(_, _)
\* the sequences seqs[i], seqs[i+1], ... pushed one after the other
Concat(seqs, i) == IF i > Len(seqs) THEN <<>> ELSE seqs[i] \o Concat(seqs, i + 1)

\* the nodes pushed while one element of models is processed
NodesOfModel(model) ==
    LET actualModels == ActualModels(model)
    IN  Concat([j \in 1..Len(actualModels) |->
                   NodesOfSubModel(actualModels[j], Or(model.name, "default"))], 1)

\* the edges pushed while one element of models is processed
EdgesOfModel(model) ==
    LET actualModels == ActualModels(model)
    IN  Concat([j \in 1..Len(actualModels) |->
                   EdgesOfSubModel(actualModels[j], Or(model.name, "default"))], 1)

convertModelsToG6Data(ms) ==
    [nodes |-> Concat([i \in 1..Len(ms) |-> NodesOfModel(ms[i])], 1),
     edges |-> Concat([i \in 1..Len(ms) |-> EdgesOfModel(ms[i])], 1)]

-----------------------------------------------------------------------------
(* The G6 graph instance, as GraphVisualizer uses it *)

NoItems == [k \in {} |-> 0]

\* a node as renderGraph hands it over: style {fill '#ffffff', stroke '#5B8FF9'},
\* lineWidth 2 from defaultNode
NodeItem == [type |-> "node", fill |-> White, stroke |-> NodeStroke, lineWidth |-> 2]

\* an edge with the defaultEdge style (fill is the fill of its endArrow)
EdgeItem == [type |-> "edge", fill |-> EdgeStroke, stroke |-> EdgeStroke, lineWidth |-> 2]

\* graph.findById(id)
findById(its, id) == id \in DOMAIN its

RECURSIVE AddNodes(_, _, _)
\* graph.render(): every node of the data becomes an item; an id already
\* present is not added again
AddNodes(nodes, i, its) ==
    IF i > Len(nodes) THEN its
    ELSE AddNodes(nodes, i + 1,
                  IF findById(its, nodes[i].id) THEN its
                  ELSE its @@ (nodes[i].id :> NodeItem))

RECURSIVE AddEdges(_, _, _)
\* graph.render(): then every edge whose id is new and whose source and
\* target are nodes of the graph
AddEdges(edges, i, its) ==
    IF i > Len(edges) THEN its
    ELSE LET e == edges[i]
             isNode(x) == findById(its, x) /\ its[x].type = "node"
         IN  AddEdges(edges, i + 1,
                      IF ~findById(its, e.id) /\ isNode(e.source) /\ isNode(e.target)
                      THEN its @@ (e.id :> EdgeItem)
                      ELSE its)

\* graph.data(graphData); graph.render(): the former items are dropped
G6Render(graphData) == AddEdges(graphData.edges, 1, AddNodes(graphData.nodes, 1, NoItems))

\* one G6 call that changes what is drawn
Call(op, id, what) == <<op, id, what>>

-----------------------------------------------------------------------------
(* GraphVisualizer: each method maps the object (this) to the object       *)
(* afterwards.  this.items and this.calls stand for the G6 graph instance  *)
(* this.graph: its items and the mutating calls made on it.                *)


\* renderGraph() adding the new data to the graph without dropping the former items
renderGraphMerging(this) ==
    IF Len(this.models) = 0 THEN this
    ELSE LET graphData == convertModelsToG6Data(this.models)
         IN  [this EXCEPT
                !.items = AddEdges(graphData.edges, 1, AddNodes(graphData.nodes, 1, @)),
                !.calls = @ \o <<Call("data", null, ""), Call("render", null, ""),
                                 Call("fitView", null, "")>>]

\* renderGraph()
renderGraph(this) ==
    IF Len(this.models) = 0 THEN this
    ELSE [this EXCEPT
            !.items = G6Render(convertModelsToG6Data(this.models)),
            !.calls = @ \o <<Call("data", null, ""), Call("render", null, ""),
                             Call("fitView", null, "")>>]

\* setModels(modelsData)
setModels(this, modelsData) ==
    renderGraph([this EXCEPT !.models = modelsData,
                             !.visitCounts = EmptyObject,
                             !.currentStepId = null,
                             !.failedStepId = null])

\* highlightElement(elementId, highlight)
highlightElement(this, elementId, highlight) ==
    IF ~findById(this.items, elementId) THEN this
    ELSE [this EXCEPT
            !.items[elementId].lineWidth = IF highlight THEN 4 ELSE 2,
            !.calls = Append(@, Call("updateItem", elementId,
                                     IF highlight THEN "lineWidth 4" ELSE "lineWidth 2"))]

\* updateElementColor(elementId)
updateElementColor(this, elementId) ==
    LET color == colorScale(CountOf(this.visitCounts, elementId))
    IN  IF ~findById(this.items, elementId) THEN this
        ELSE [this EXCEPT
                !.items[elementId].fill = color,
                !.items[elementId].stroke = color,
                !.calls = Append(@, Call("updateItem", elementId, "visit colour"))]


\* markElementAsFailed(elementId) giving way to the current element
markElementAsFailedUnlessCurrent(this, elementId) ==
    IF elementId = this.currentStepId THEN this
    ELSE LET failed == [this EXCEPT !.failedStepId = elementId]
         IN  IF ~findById(this.items, elementId) THEN failed
             ELSE [failed EXCEPT
                     !.items[elementId].fill = FailedFill,
                     !.items[elementId].stroke =
                         IF this.items[elementId].type = "node" THEN FailedStroke
                         ELSE FailedFill,
                     !.calls = Append(@, Call("updateItem", elementId, "failure colour"))]

\* markElementAsFailed(elementId)
markElementAsFailed(this, elementId) ==
    LET failed == [this EXCEPT !.failedStepId = elementId]
    IN  IF ~findById(this.items, elementId) THEN failed
        ELSE [failed EXCEPT
                !.items[elementId].fill = FailedFill,
                !.items[elementId].stroke =
                    IF this.items[elementId].type = "node" THEN FailedStroke ELSE FailedFill,
                !.calls = Append(@, Call("updateItem", elementId, "failure colour"))]

\* clear()
clear(this) ==
    [this EXCEPT !.items = NoItems,
                 !.calls = Append(@, Call("clear", null, "")),
                 !.visitCounts = EmptyObject,
                 !.currentStepId = null,
                 !.failedStepId = null]


\* the guard clauses of updateStep without the lookup of the item
updateStepProceedsWithoutLookup(this, stepId) == Truthy(stepId)

\* updateStep(stepId), its guard clauses: it goes on only for a stepId that
\* is truthy and that the graph holds
updateStepProceeds(this, stepId) == Truthy(stepId) /\ findById(this.items, stepId)


\* updateStep leaving the previous step highlighted
removePreviousHighlightSkipped(this) == this

\* updateStep: remove the highlight from the previous step
removePreviousHighlight(this) ==
    IF Truthy(this.currentStepId) THEN highlightElement(this, this.currentStepId, FALSE)
    ELSE this

\* updateStep: this.visitCounts[stepId] = (this.visitCounts[stepId] || 0) + 1
\* MUTANT: a visit that counts twice
incrementVisitCountByTwo(this, stepId) ==
    [this EXCEPT !.visitCounts =
        [k \in DOMAIN this.visitCounts \cup {stepId} |->
            CountOf(this.visitCounts, k) + IF k = stepId THEN 2 ELSE 0]]

incrementVisitCount(this, stepId) ==
    [this EXCEPT !.visitCounts =
        [k \in DOMAIN this.visitCounts \cup {stepId} |->
            CountOf(this.visitCounts, k) + IF k = stepId THEN 1 ELSE 0]]

\* updateStep: this.currentStepId = stepId
setCurrentStep(this, stepId) == [this EXCEPT !.currentStepId = stepId]

\* updateStep(stepId), run from its first line to its last
updateStep(this, stepId) ==
    IF ~updateStepProceeds(this, stepId) THEN this
    ELSE highlightElement(
           updateElementColor(
             setCurrentStep(
               incrementVisitCount(removePreviousHighlight(this), stepId),
               stepId),
             stepId),
           stepId, TRUE)

-----------------------------------------------------------------------------
(* Bookkeeping of the model: the message handled and the state it met *)

Message(type, id, name, payload, error, status) ==
    [type |-> type, id |-> id, name |-> name, payload |-> payload,
     error |-> error, status |-> status]

\* the graphVisualizer object as the handler being run finds it
GraphVisualizer ==
    [models |-> models, visitCounts |-> visitCounts, currentStepId |-> currentStepId,
     failedStepId |-> failedStepId, items |-> items, calls |-> calls]

\* the same at the start of a handler: no G6 call made yet
OnEntry == [GraphVisualizer EXCEPT !.calls = <<>>]

Snapshot ==
    [models |-> models, visitCounts |-> visitCounts, currentStepId |-> currentStepId,
     failedStepId |-> failedStepId, items |-> items, isRunning |-> isRunning]

\* the object is left as `this`
Becomes(this) ==
    /\ models' = this.models
    /\ visitCounts' = this.visitCounts
    /\ currentStepId' = this.currentStepId
    /\ failedStepId' = this.failedStepId
    /\ items' = this.items
    /\ calls' = this.calls

NoStepStarts == [r \in Refs |-> 0]

\* the sockets connect() can create, in the order of their creation
Sockets == 1..MaxSockets

\* MUTANT: a step without id and name is taken to be the vertex A
ReferencedIdDefaulting(id, name) == IF Truthy(id) THEN id ELSE IF Truthy(name) THEN name ELSE "A"

\* step.id if it is truthy, else step.name if that is truthy, else nothing
ReferencedId(id, name) == IF Truthy(id) THEN id ELSE IF Truthy(name) THEN name ELSE null

-----------------------------------------------------------------------------
(* ui.js: the statistics section of UIManager *)

\* a field the statistics record does not have
Absent == -1

\* x || 0, for a number or an absent field
OrZero(x) == IF x > 0 THEN x ELSE 0

\* message.statistics of an end message (given: the message has it), or the
\* record handed to updateStatistics (hasStatus: it has a status field)
Statistics(given, tm, cm, fm, ec, ev, eu, vc, vv, vu) ==
    [given |-> given, hasStatus |-> FALSE, status |-> FALSE,
     totalNumberOfModels |-> tm, totalCompletedNumberOfModels |-> cm,
     totalFailedNumberOfModels |-> fm,
     edgeCoverage |-> ec, totalNumberOfVisitedEdges |-> ev,
     totalNumberOfUnvisitedEdges |-> eu,
     vertexCoverage |-> vc, totalNumberOfVisitedVertices |-> vv,
     totalNumberOfUnvisitedVertices |-> vu]

\* an end message without statistics
Omitted == Statistics(FALSE, Absent, Absent, Absent, Absent, Absent, Absent,
                      Absent, Absent, Absent)

\* getCoverageClass(percentage)
getCoverageClass(percentage) ==
    IF percentage >= 80 THEN "bg-green-100 text-green-800"
    ELSE IF percentage >= 50 THEN "bg-yellow-100 text-yellow-800"
    ELSE "bg-red-100 text-red-800"

\* the statistics section as the page is loaded: hidden, nothing reported
\* (the texts index.html gives the fields are not part of the sources)
InitialElements ==
    [statisticsSectionHidden |-> TRUE,
     statsStatus |-> "", statsStatusClass |-> "",
     statsModelsTotal |-> 0, statsModelsCompleted |-> 0, statsModelsFailed |-> 0,
     statsEdgeCoverage |-> 0, statsEdgeCoverageClass |-> "",
     statsEdgesVisited |-> 0, statsEdgesUnvisited |-> 0,
     statsVertexCoverage |-> 0, statsVertexCoverageClass |-> "",
     statsVerticesVisited |-> 0, statsVerticesUnvisited |-> 0]

hideStatisticsSection(els) == [els EXCEPT !.statisticsSectionHidden = TRUE]

showStatisticsSection(els) == [els EXCEPT !.statisticsSectionHidden = FALSE]

\* MUTANT: the edge coverage field shows the vertex coverage
updateStatisticsOneFigure(els, statistics) ==
    [els EXCEPT
       !.statsStatus = IF ~statistics.hasStatus THEN @
                       ELSE IF statistics.status THEN "Passed" ELSE "Failed",
       !.statsStatusClass = IF ~statistics.hasStatus THEN @
                            ELSE IF statistics.status THEN "bg-green-100 text-green-800"
                            ELSE "bg-red-100 text-red-800",
       !.statsModelsTotal = OrZero(statistics.totalNumberOfModels),
       !.statsModelsCompleted = OrZero(statistics.totalCompletedNumberOfModels),
       !.statsModelsFailed = OrZero(statistics.totalFailedNumberOfModels),
       !.statsEdgeCoverage = OrZero(statistics.vertexCoverage),
       !.statsEdgeCoverageClass = getCoverageClass(OrZero(statistics.vertexCoverage)),
       !.statsEdgesVisited = OrZero(statistics.totalNumberOfVisitedEdges),
       !.statsEdgesUnvisited = OrZero(statistics.totalNumberOfUnvisitedEdges),
       !.statsVertexCoverage = OrZero(statistics.vertexCoverage),
       !.statsVertexCoverageClass = getCoverageClass(OrZero(statistics.vertexCoverage)),
       !.statsVerticesVisited = OrZero(statistics.totalNumberOfVisitedVertices),
       !.statsVerticesUnvisited = OrZero(statistics.totalNumberOfUnvisitedVertices)]

\* updateStatistics(statistics)
updateStatistics(els, statistics) ==
    [els EXCEPT
       !.statsStatus = IF ~statistics.hasStatus THEN @
                       ELSE IF statistics.status THEN "Passed" ELSE "Failed",
       !.statsStatusClass = IF ~statistics.hasStatus THEN @
                            ELSE IF statistics.status THEN "bg-green-100 text-green-800"
                            ELSE "bg-red-100 text-red-800",
       !.statsModelsTotal = OrZero(statistics.totalNumberOfModels),
       !.statsModelsCompleted = OrZero(statistics.totalCompletedNumberOfModels),
       !.statsModelsFailed = OrZero(statistics.totalFailedNumberOfModels),
       !.statsEdgeCoverage = OrZero(statistics.edgeCoverage),
       !.statsEdgeCoverageClass = getCoverageClass(OrZero(statistics.edgeCoverage)),
       !.statsEdgesVisited = OrZero(statistics.totalNumberOfVisitedEdges),
       !.statsEdgesUnvisited = OrZero(statistics.totalNumberOfUnvisitedEdges),
       !.statsVertexCoverage = OrZero(statistics.vertexCoverage),
       !.statsVertexCoverageClass = getCoverageClass(OrZero(statistics.vertexCoverage)),
       !.statsVerticesVisited = OrZero(statistics.totalNumberOfVisitedVertices),
       !.statsVerticesUnvisited = OrZero(statistics.totalNumberOfUnvisitedVertices)]

\* { status: message.status, ...message.statistics }, or { status: message.status }
StatisticsOfEnd(status, statistics) ==
    IF statistics.given /\ statistics.hasStatus THEN statistics
    ELSE [statistics EXCEPT !.hasStatus = TRUE, !.status = status]

\* message.result of a step-end message, or the message and trace of an
\* error message: null is a field that is not there
Result(id, output, hasError, message, trace) ==
    [id |-> id, output |-> output, hasError |-> hasError,
     message |-> message, trace |-> trace]

NoResult == Result(null, null, FALSE, null, null)

\* the text areas as the page is loaded (outputText is the list of the
\* texts appended, each followed by a line feed)
InitialTextAreas == [outputText |-> <<>>, errorMessage |-> "", errorTrace |-> ""]

\* appendOutput(text)
appendOutput(areas, text) == [areas EXCEPT !.outputText = Append(@, text)]

\* clearOutput()
clearOutput(areas) == [areas EXCEPT !.outputText = <<>>]

\* updateError(message, trace)
updateError(areas, message, trace) ==
    [areas EXCEPT !.errorMessage = Or(message, ""), !.errorTrace = Or(trace, "")]

\* clearError()
clearError(areas) == [areas EXCEPT !.errorMessage = "", !.errorTrace = ""]

\* MUTANT: the error text is forwarded only with an element to mark
forwardResultWithIdOnly(areas, result) ==
    LET appended == IF Truthy(result.output) THEN appendOutput(areas, result.output)
                    ELSE areas
    IN  IF result.hasError /\ Truthy(result.id)
        THEN updateError(appended, Or(result.message, "Unknown error"),
                         Or(result.trace, ""))
        ELSE appended

\* handleStepEndMessage: what it hands to uiManager
forwardResult(areas, result) ==
    LET appended == IF Truthy(result.output) THEN appendOutput(areas, result.output)
                    ELSE areas
    IN  IF result.hasError
        THEN updateError(appended, Or(result.message, "Unknown error"),
                         Or(result.trace, ""))
        ELSE appended

\* the connect button and the error alert as the page is loaded
InitialConnectUi == [connecting |-> FALSE, errorAlertHidden |-> TRUE, errorAlertText |-> ""]

\* showConnecting(): the button is disabled and shows the loading text
showConnecting(ui) == [ui EXCEPT !.connecting = TRUE]

\* hideConnecting()
hideConnecting(ui) == [ui EXCEPT !.connecting = FALSE]

\* showError(message)
showError(ui, message) ==
    [ui EXCEPT !.errorAlertText = message, !.errorAlertHidden = FALSE]

\* hideError()
hideError(ui) == [ui EXCEPT !.errorAlertHidden = TRUE]

\* a handleConnect call: the outcome of the fetch of /healthz ("none": no
\* call made, "pending", "ok", "failed"), whether its socket had an error
\* event before it opened, whether POST /api/start-test has been issued,
\* and what had been sent when it began
Attempt(healthz, errored, requested, sentBefore) ==
    [healthz |-> healthz, errored |-> errored, requested |-> requested,
     sentBefore |-> sentBefore]

\* no call of convertModelsToG6Data has returned
NotConverted == [done |-> FALSE, nodes |-> <<>>, edges |-> <<>>]

-----------------------------------------------------------------------------
(* The state after init(): graphVisualizer.initialize() has created the   *)
(* (empty) G6 graph and the handlers are registered                        *)

InitSession ==
    /\ models = <<>>
    /\ visitCounts = EmptyObject
    /\ currentStepId = null
    /\ failedStepId = null
    /\ items = NoItems
    /\ isRunning = FALSE
    /\ pc = "idle"
    /\ arg = null
    /\ calls = <<>>
    /\ last = Message("none", null, null, null, FALSE, FALSE)
    /\ before = [models |-> <<>>, visitCounts |-> EmptyObject, currentStepId |-> null,
                 failedStepId |-> null, items |-> NoItems, isRunning |-> FALSE]
    /\ stepStarts = NoStepStarts

\* new WebSocketClient(): no socket, not connected; the button is enabled
InitClient ==
    /\ ws = 0
    /\ connected = FALSE
    /\ readyState = [s \in Sockets |-> "none"]
    /\ sent = [s \in Sockets |-> <<>>]
    /\ inbox = <<>>
    /\ arrived = 0
    /\ taken = 0
    /\ origin = 0
    /\ outcome = "none"
    /\ caught = FALSE
    /\ connectPc = "ready"

\* new UIManager(): the statistics section; no end message handled
InitPanel ==
    /\ elements = InitialElements
    /\ lastStatistics = Omitted

\* convertModelsToG6Data is not being called
InitAdapter ==
    /\ rawModels = <<>>
    /\ g6Data = NotConverted

\* new UIManager(): the text areas; no message handled
InitText ==
    /\ textAreas = InitialTextAreas
    /\ lastResult = NoResult

\* the connect button has not been clicked
InitConnect ==
    /\ connectUi = InitialConnectUi
    /\ attempt = Attempt("none", FALSE, FALSE, [s \in Sockets |-> <<>>])

Init == InitSession /\ InitClient /\ InitPanel /\ InitAdapter /\ InitText /\ InitConnect

-----------------------------------------------------------------------------
(* main.js: the handlers of the inbound messages *)

\* handleStartMessage(message)
handleStartMessage(p) ==
    /\ pc = "idle"
    /\ last' = Message("start", null, null, p, FALSE, FALSE)
    /\ before' = Snapshot
    /\ stepStarts' = NoStepStarts
    /\ IF HasModelsField(p) /\ Len(ModelsOf(p)) > 0
       THEN Becomes(setModels(OnEntry, ModelsOf(p)))
       ELSE Becomes(OnEntry)
    /\ isRunning' = TRUE
    /\ UNCHANGED <<pc, arg>>

\* handleStepStartMessage(message), up to and with the guard clauses of updateStep
handleStepStartMessageBody(id, name) ==
    /\ pc = "idle"
    /\ last' = Message("step-start", id, name, null, FALSE, FALSE)
    /\ before' = Snapshot
    /\ Becomes(OnEntry)
    /\ LET stepId == ReferencedId(id, name)
       IN  /\ stepStarts' = IF stepId = null THEN stepStarts
                            ELSE [stepStarts EXCEPT ![stepId] = @ + 1]
           /\ IF updateStepProceeds(OnEntry, stepId)
              THEN pc' = "unhighlight" /\ arg' = stepId
              ELSE UNCHANGED <<pc, arg>>
    /\ UNCHANGED isRunning

\* handleStepStartMessage(message), while the bounds of the model allow one more
handleStepStartMessage(id, name) ==
    /\ SumOf(stepStarts, Refs) < MaxSteps
    /\ SumOf(visitCounts, DOMAIN visitCounts) < MaxVisits
    /\ handleStepStartMessageBody(id, name)

\* updateStep, line by line; the last step returns from the handler
updateStepUnhighlight ==
    /\ pc = "unhighlight"
    /\ Becomes(removePreviousHighlight(GraphVisualizer))
    /\ pc' = "count"
    /\ UNCHANGED <<isRunning, arg, last, before, stepStarts>>

updateStepCount ==
    /\ pc = "count"
    /\ Becomes(incrementVisitCount(GraphVisualizer, arg))
    /\ pc' = "current"
    /\ UNCHANGED <<isRunning, arg, last, before, stepStarts>>

\* MUTANT: updateStep returns to the event loop once the current element is set
updateStepCurrentReturns ==
    /\ pc = "current"
    /\ Becomes(setCurrentStep(GraphVisualizer, arg))
    /\ pc' = "idle"
    /\ arg' = null
    /\ UNCHANGED <<isRunning, last, before, stepStarts>>

updateStepCurrent ==
    /\ pc = "current"
    /\ Becomes(setCurrentStep(GraphVisualizer, arg))
    /\ pc' = "color"
    /\ UNCHANGED <<isRunning, arg, last, before, stepStarts>>

updateStepColor ==
    /\ pc = "color"
    /\ Becomes(updateElementColor(GraphVisualizer, arg))
    /\ pc' = "highlight"
    /\ UNCHANGED <<isRunning, arg, last, before, stepStarts>>

updateStepHighlight ==
    /\ pc = "highlight"
    /\ Becomes(highlightElement(GraphVisualizer, arg, TRUE))
    /\ pc' = "idle"
    /\ arg' = null
    /\ UNCHANGED <<isRunning, last, before, stepStarts>>

\* handleStepEndMessage(message): result.id, and whether result.error is there
handleStepEndMessage(id, error) ==
    /\ pc = "idle"
    /\ last' = Message("step-end", id, null, null, error, FALSE)
    /\ before' = Snapshot
    /\ IF error /\ Truthy(id)
       THEN Becomes(markElementAsFailed(OnEntry, id))
       ELSE Becomes(OnEntry)
    /\ UNCHANGED <<isRunning, pc, arg, stepStarts>>

\* MUTANT: a top-level error message that also ends the run
handleErrorMessageEndsRun(id) ==
    /\ pc = "idle"
    /\ last' = Message("error", id, null, null, TRUE, FALSE)
    /\ before' = Snapshot
    /\ IF Truthy(id)
       THEN Becomes(markElementAsFailed(OnEntry, id))
       ELSE Becomes(OnEntry)
    /\ isRunning' = FALSE
    /\ UNCHANGED <<pc, arg, stepStarts>>

\* handleErrorMessage(message): message.step && message.step.id
handleErrorMessage(id) ==
    /\ pc = "idle"
    /\ last' = Message("error", id, null, null, TRUE, FALSE)
    /\ before' = Snapshot
    /\ IF Truthy(id)
       THEN Becomes(markElementAsFailed(OnEntry, id))
       ELSE Becomes(OnEntry)
    /\ UNCHANGED <<isRunning, pc, arg, stepStarts>>

\* handleEndMessage(message)
handleEndMessage(status) ==
    /\ pc = "idle"
    /\ last' = Message("end", null, null, null, FALSE, status)
    /\ before' = Snapshot
    /\ Becomes(OnEntry)
    /\ isRunning' = FALSE
    /\ UNCHANGED <<pc, arg, stepStarts>>

\* graphVisualizer.clear(), called by the page's owner between two messages
callClear ==
    /\ pc = "idle"
    /\ last' = Message("clear", null, null, null, FALSE, FALSE)
    /\ before' = Snapshot
    /\ Becomes(clear(OnEntry))
    /\ stepStarts' = NoStepStarts
    /\ UNCHANGED <<isRunning, pc, arg>>

Next ==
    \/ (\E p \in StartPayloads : handleStartMessage(p)) /\ UNCHANGED offSession
    \/ (\E id \in StepIds, name \in StepNames : handleStepStartMessage(id, name))
          /\ UNCHANGED offSession
    \/ updateStepUnhighlight /\ UNCHANGED offSession
    \/ updateStepCount /\ UNCHANGED offSession
    \/ updateStepCurrent /\ UNCHANGED offSession
    \/ updateStepColor /\ UNCHANGED offSession
    \/ updateStepHighlight /\ UNCHANGED offSession
    \/ (\E id \in FailIds, error \in BOOLEAN : handleStepEndMessage(id, error))
          /\ UNCHANGED offSession
    \/ (\E id \in FailIds : handleErrorMessage(id)) /\ UNCHANGED offSession
    \/ (\E status \in BOOLEAN : handleEndMessage(status)) /\ UNCHANGED offSession
    \/ callClear /\ UNCHANGED offSession

Spec == Init /\ [][Next]_vars

-----------------------------------------------------------------------------
(* ui.js: the WebSocketClient, and handleConnect of main.js *)

\* the text of an inbound frame: whether JSON.parse accepts it, and what the
\* parsed message then carries (body: its step or result object is there)
Payload(json, type, body, id, name, payload, error, status) ==
    [json |-> json, type |-> type, body |-> body, id |-> id, name |-> name,
     payload |-> payload, error |-> error, status |-> status]

NotJson == Payload(FALSE, null, FALSE, null, null, null, FALSE, FALSE)

\* the frames a socket may deliver (SpecClient)
ClientPayloads ==
    { NotJson,
      Payload(TRUE, "start", FALSE, null, null, "AB", FALSE, FALSE),
      Payload(TRUE, "start", FALSE, null, null, "empty", FALSE, FALSE),
      Payload(TRUE, "step-start", TRUE, "A", null, null, FALSE, FALSE),
      Payload(TRUE, "step-start", TRUE, null, null, null, FALSE, FALSE),
      Payload(TRUE, "step-start", FALSE, null, null, null, FALSE, FALSE),
      Payload(TRUE, "step-end", TRUE, "A", null, null, TRUE, FALSE),
      Payload(TRUE, "step-end", FALSE, null, null, null, FALSE, FALSE),
      Payload(TRUE, "error", TRUE, "go", null, null, TRUE, FALSE),
      Payload(TRUE, "end", FALSE, null, null, null, FALSE, TRUE),
      Payload(TRUE, "ping", FALSE, null, null, null, FALSE, FALSE),
      Payload(TRUE, "toString", FALSE, null, null, null, FALSE, FALSE),
      Payload(TRUE, "valueOf", FALSE, null, null, null, FALSE, FALSE) }

\* the frames a socket may deliver (SpecConnect)
ConnectPayloads ==
    { Payload(TRUE, "start", FALSE, null, null, "AB", FALSE, FALSE),
      Payload(TRUE, "start", FALSE, null, null, "empty", FALSE, FALSE),
      Payload(TRUE, "step-start", TRUE, "A", null, null, FALSE, FALSE),
      Payload(TRUE, "step-end", TRUE, "A", null, null, TRUE, FALSE) }

\* the keys setupWebSocketHandlers has registered a handler under
OwnHandlers == {"start", "step-start", "step-end", "end", "error"}

\* functions messageHandlers inherits from Object.prototype: called as
\* handler(message), their this is undefined; valueOf then throws a
\* TypeError (ToObject(undefined)) and toString returns
InheritedReturning == {"toString"}
InheritedThrowing == {"valueOf"}

\* this.messageHandlers[type], when it is a function
HandlerOf(type) ==
    IF type \in OwnHandlers \cup InheritedReturning \cup InheritedThrowing
    THEN type ELSE null

\* WebSocketClient.send(message), called while this.ws = w, this.connected = c
\* and the sockets are in the states rs: what has been passed to the
\* sockets, and whether WebSocket.send threw (the socket is still connecting)
send(w, c, rs, out, message) ==
    IF w # 0 /\ c
    THEN [sent  |-> IF rs[w] = "open" THEN [out EXCEPT ![w] = Append(@, message)] ELSE out,
          threw |-> rs[w] = "connecting"]
    ELSE [sent |-> out, threw |-> FALSE]

\* a callback that leaves the session as it is
NoEffect(message) ==
    /\ last' = message
    /\ before' = Snapshot
    /\ Becomes(OnEntry)
    /\ UNCHANGED <<isRunning, pc, arg, stepStarts>>

\* MUTANT: a handler that forgets the current element before it reads the step
handleStepStartMessageWithoutStepResets ==
    /\ pc = "idle"
    /\ last' = Message("step-start", null, null, "absent", FALSE, FALSE)
    /\ before' = Snapshot
    /\ Becomes(setCurrentStep(OnEntry, null))
    /\ UNCHANGED <<isRunning, pc, arg, stepStarts>>

\* handleStepStartMessage(message) when message.step is undefined:
\* step.id throws a TypeError
handleStepStartMessageWithoutStep ==
    /\ pc = "idle"
    /\ NoEffect(Message("step-start", null, null, "absent", FALSE, FALSE))

\* handleStepEndMessage(message) when message.result is undefined:
\* result.output throws a TypeError
handleStepEndMessageWithoutResult ==
    /\ pc = "idle"
    /\ NoEffect(Message("step-end", null, null, "absent", FALSE, FALSE))

\* how ws.onmessage ends: "handled" (a handler was called and returned),
\* "unhandled" (no handler: logged), "threw" (the handler threw: caught and
\* logged), "unparsed" (JSON.parse threw: caught and logged)
Ends(how) == outcome' = how /\ caught' = (caught \/ how \in {"threw", "unparsed"})

\* a message that carries its type alone
Bare(type) == Message(type, null, null, null, FALSE, FALSE)

\* MUTANT: a catch clause that also ends the run
discardFrameEndsRun ==
    /\ last' = Bare("unparsed")
    /\ before' = Snapshot
    /\ Becomes(OnEntry)
    /\ isRunning' = FALSE
    /\ UNCHANGED <<pc, arg, stepStarts>>
    /\ Ends("unparsed")

\* ws.onmessage when JSON.parse(event.data) throws: the catch clause logs
discardFrame == NoEffect(Bare("unparsed")) /\ Ends("unparsed")

\* WebSocketClient.handleMessage(message), inside the try of ws.onmessage
handleMessage(message) ==
    LET handler == HandlerOf(message.type)
    IN  IF handler = null
        THEN NoEffect(Bare(message.type)) /\ Ends("unhandled")
        ELSE IF handler \in InheritedThrowing
        THEN NoEffect(Bare(message.type)) /\ Ends("threw")
        ELSE IF handler \in InheritedReturning
        THEN NoEffect(Bare(message.type)) /\ Ends("handled")
        ELSE IF handler = "start"
        THEN handleStartMessage(message.payload) /\ Ends("handled")
        ELSE IF handler = "step-start"
        THEN IF message.body
             THEN handleStepStartMessage(message.id, message.name) /\ Ends("handled")
             ELSE handleStepStartMessageWithoutStep /\ Ends("threw")
        ELSE IF handler = "step-end"
        THEN IF message.body
             THEN handleStepEndMessage(message.id, message.error) /\ Ends("handled")
             ELSE handleStepEndMessageWithoutResult /\ Ends("threw")
        ELSE IF handler = "error"
        THEN handleErrorMessage(IF message.body THEN message.id ELSE null)
               /\ Ends("handled")
        ELSE handleEndMessage(message.status) /\ Ends("handled")

\* ws.onmessage(event) for the event at the head of the queue
onmessage ==
    /\ pc = "idle"
    /\ inbox # <<>>
    /\ LET event == Head(inbox)
       IN  /\ inbox' = Tail(inbox)
           /\ taken' = event.no
           /\ origin' = event.sock
           /\ IF event.data.json
              THEN handleMessage(event.data)
              ELSE discardFrame
    /\ UNCHANGED <<ws, connected, readyState, sent, arrived, connectPc>>

\* the browser queues a message event for a frame received on an open socket
arrive(s, data) ==
    /\ readyState[s] = "open"
    /\ arrived < MaxMessages
    /\ arrived' = arrived + 1
    /\ inbox' = Append(inbox, [no |-> arrived + 1, sock |-> s, data |-> data])
    /\ UNCHANGED <<sessionVars, ws, connected, readyState, sent, taken, origin,
                   outcome, caught, connectPc>>

\* handleConnect(), up to the fetch of /healthz in connect(): the button is disabled
handleConnect ==
    /\ pc = "idle"
    /\ connectPc = "ready"
    /\ connectPc' = "healthz"
    /\ UNCHANGED <<sessionVars, ws, connected, readyState, sent, inbox, arrived,
                   taken, origin, outcome, caught>>

\* MUTANT: connect() creates the socket whatever /healthz answers
connectCreatesSocketRegardless(ok) ==
    /\ pc = "idle"
    /\ connectPc = "healthz"
    /\ \E s \in Sockets : readyState[s] = "none"
    /\ LET s == CHOOSE n \in Sockets :
                   readyState[n] = "none" /\ \A k \in 1..(n - 1) : readyState[k] # "none"
       IN  /\ ws' = s
           /\ readyState' = [readyState EXCEPT ![s] = "connecting"]
    /\ connectPc' = "opening"
    /\ UNCHANGED <<sessionVars, connected, sent, inbox, arrived, taken, origin,
                   outcome, caught>>

\* connect() after the fetch: it throws (handleConnect enables the button
\* again) or creates the socket and waits for it to open
connectCreatesSocket(ok) ==
    /\ pc = "idle"
    /\ connectPc = "healthz"
    /\ IF ok
       THEN /\ \E s \in Sockets : readyState[s] = "none"
            /\ LET s == CHOOSE n \in Sockets :
                           readyState[n] = "none" /\ \A k \in 1..(n - 1) : readyState[k] # "none"
               IN  /\ ws' = s
                   /\ readyState' = [readyState EXCEPT ![s] = "connecting"]
            /\ connectPc' = "opening"
       ELSE /\ connectPc' = "ready"
            /\ UNCHANGED <<ws, readyState>>
    /\ UNCHANGED <<sessionVars, connected, sent, inbox, arrived, taken, origin,
                   outcome, caught>>

\* MUTANT: init and start are sent before connected is set
onopenSendsBeforeConnected(s) ==
    /\ pc = "idle"
    /\ readyState[s] = "connecting"
    /\ readyState' = [readyState EXCEPT ![s] = "open"]
    /\ connected' = TRUE
    /\ LET init  == send(ws, connected, readyState', sent, "init")
           start == send(ws, connected, readyState', init.sent, "start")
       IN  /\ sent' = IF init.threw THEN init.sent ELSE start.sent
           /\ connectPc' = IF ~init.threw /\ ~start.threw /\ connectPc = "opening" /\ ws = s
                           THEN "start-test" ELSE connectPc
    /\ UNCHANGED <<sessionVars, ws, inbox, arrived, taken, origin, outcome, caught>>

\* ws.onopen of socket s: connected, init, start, resolve (handleConnect goes
\* on to POST /api/start-test)
onopen(s) ==
    /\ pc = "idle"
    /\ readyState[s] = "connecting"
    /\ readyState' = [readyState EXCEPT ![s] = "open"]
    /\ connected' = TRUE
    /\ LET init  == send(ws, TRUE, readyState', sent, "init")
           start == send(ws, TRUE, readyState', init.sent, "start")
       IN  /\ sent' = IF init.threw THEN init.sent ELSE start.sent
           /\ connectPc' = IF ~init.threw /\ ~start.threw /\ connectPc = "opening" /\ ws = s
                           THEN "start-test" ELSE connectPc
    /\ UNCHANGED <<sessionVars, ws, inbox, arrived, taken, origin, outcome, caught>>

\* the response of /api/start-test, or its failure: the button is enabled again
startTestResponse ==
    /\ pc = "idle"
    /\ connectPc = "start-test"
    /\ connectPc' = "ready"
    /\ UNCHANGED <<sessionVars, ws, connected, readyState, sent, inbox, arrived,
                   taken, origin, outcome, caught>>

\* ws.onerror of socket s, run after the message events queued before it:
\* connected = false, reject (handleConnect, if it waits, enables the button)
onerror(s) ==
    /\ pc = "idle"
    /\ readyState[s] \in {"connecting", "open"}
    /\ inbox = <<>>
    /\ readyState' = [readyState EXCEPT ![s] = "failed"]
    /\ connected' = FALSE
    /\ connectPc' = IF connectPc = "opening" /\ ws = s THEN "ready" ELSE connectPc
    /\ UNCHANGED <<sessionVars, ws, sent, inbox, arrived, taken, origin, outcome,
                   caught>>

\* ws.onclose of socket s, run after the message events queued before it
onclose(s) ==
    /\ pc = "idle"
    /\ readyState[s] \in {"open", "failed"}
    /\ inbox = <<>>
    /\ readyState' = [readyState EXCEPT ![s] = "closed"]
    /\ connected' = FALSE
    /\ UNCHANGED <<sessionVars, ws, sent, inbox, arrived, taken, origin, outcome,
                   caught, connectPc>>

\* one connection: the button is clicked while no socket has been created
NextClient ==
    \/ (ws = 0 /\ handleConnect) /\ UNCHANGED offClient
    \/ (\E ok \in BOOLEAN : connectCreatesSocket(ok)) /\ UNCHANGED offClient
    \/ (\E s \in Sockets : onopen(s)) /\ UNCHANGED offClient
    \/ (startTestResponse) /\ UNCHANGED offClient
    \/ (\E s \in Sockets, data \in ClientPayloads : arrive(s, data)) /\ UNCHANGED offClient
    \/ (onmessage) /\ UNCHANGED offClient
    \/ updateStepUnhighlight /\ UNCHANGED offSession
    \/ updateStepCount /\ UNCHANGED offSession
    \/ updateStepCurrent /\ UNCHANGED offSession
    \/ updateStepColor /\ UNCHANGED offSession
    \/ updateStepHighlight /\ UNCHANGED offSession

SpecClient == Init /\ [][NextClient]_vars

\* connections made, failing and closed while messages flow
NextConnect ==
    \/ (handleConnect) /\ UNCHANGED offClient
    \/ (\E ok \in BOOLEAN : connectCreatesSocket(ok)) /\ UNCHANGED offClient
    \/ (\E s \in Sockets : onopen(s)) /\ UNCHANGED offClient
    \/ (startTestResponse) /\ UNCHANGED offClient
    \/ (\E s \in Sockets : onerror(s)) /\ UNCHANGED offClient
    \/ (\E s \in Sockets : onclose(s)) /\ UNCHANGED offClient
    \/ (\E s \in Sockets, data \in ConnectPayloads : arrive(s, data)) /\ UNCHANGED offClient
    \/ (onmessage) /\ UNCHANGED offClient
    \/ updateStepUnhighlight /\ UNCHANGED offSession
    \/ updateStepCount /\ UNCHANGED offSession
    \/ updateStepCurrent /\ UNCHANGED offSession
    \/ updateStepColor /\ UNCHANGED offSession
    \/ updateStepHighlight /\ UNCHANGED offSession

SpecConnect == Init /\ [][NextConnect]_vars

-----------------------------------------------------------------------------
(* SpecHandshake: handleConnect with what it shows on the page, from the   *)
(* click to the answer of /api/start-test, over several connections        *)

\* the frames a socket may deliver meanwhile
HandshakePayloads ==
    { Payload(TRUE, "start", FALSE, null, null, "AB", FALSE, FALSE),
      Payload(TRUE, "end", FALSE, null, null, null, FALSE, TRUE) }

\* handleConnect() up to the fetch of /healthz, showConnecting() and
\* hideError() included
handleConnectShowingProgress ==
    /\ handleConnect
    /\ connectUi' = hideError(showConnecting(connectUi))
    /\ attempt' = Attempt("pending", FALSE, FALSE, sent)

\* connect() after the fetch; when it throws, the catch clause of
\* handleConnect runs
connectAfterHealthz(ok) ==
    /\ connectCreatesSocket(ok)
    /\ attempt' = [attempt EXCEPT !.healthz = IF ok THEN "ok" ELSE "failed"]
    /\ connectUi' =
          IF ok THEN connectUi
          ELSE showError(hideConnecting(connectUi),
                         "Unable to connect to server. Make sure the server is running.")

\* ws.onopen; when it resolves the promise handleConnect waits for,
\* handleConnect issues POST /api/start-test
onopenResolving(s) ==
    /\ onopen(s)
    /\ attempt' = [attempt EXCEPT !.requested = @ \/ connectPc' = "start-test"]
    /\ UNCHANGED connectUi

\* the answer of /api/start-test: hideConnecting(), and showError(...) when
\* it is not ok
startTestAnswered(ok) ==
    /\ startTestResponse
    /\ connectUi' =
          IF ok THEN hideConnecting(connectUi)
          ELSE showError(hideConnecting(connectUi), "Failed to start test execution")
    /\ UNCHANGED attempt

\* ws.onerror; when it rejects the promise handleConnect waits for, the
\* catch clause of handleConnect runs
onerrorRejecting(s) ==
    /\ onerror(s)
    /\ IF connectPc = "opening" /\ ws = s
       THEN /\ attempt' = [attempt EXCEPT !.errored = TRUE]
            /\ connectUi' = showError(hideConnecting(connectUi),
                                      "WebSocket connection error")
       ELSE UNCHANGED connectVars

NextHandshake ==
    \/ handleConnectShowingProgress /\ UNCHANGED <<adapterVars, panelVars, textVars>>
    \/ (\E ok \in BOOLEAN : connectAfterHealthz(ok))
          /\ UNCHANGED <<adapterVars, panelVars, textVars>>
    \/ (\E s \in Sockets : onopenResolving(s))
          /\ UNCHANGED <<adapterVars, panelVars, textVars>>
    \/ (\E ok \in BOOLEAN : startTestAnswered(ok))
          /\ UNCHANGED <<adapterVars, panelVars, textVars>>
    \/ (\E s \in Sockets : onerrorRejecting(s))
          /\ UNCHANGED <<adapterVars, panelVars, textVars>>
    \/ (\E s \in Sockets : onclose(s)) /\ UNCHANGED offClient
    \/ (\E s \in Sockets, data \in HandshakePayloads : arrive(s, data))
          /\ UNCHANGED offClient
    \/ onmessage /\ UNCHANGED offClient

SpecHandshake == Init /\ [][NextHandshake]_vars

-----------------------------------------------------------------------------
(* SpecAdapter: convertModelsToG6Data by itself, applied once to a models  *)
(* array drawn from InputModels                                            *)

\* the vertices a sub-model is made of: two share the display name "A",
\* one has none
VertexPool == {Vertex("v1", "A"), Vertex("v2", null), Vertex("v3", "A")}

\* the edges: between vertices that may be there, to a vertex that never
\* is ("v9"), and from a display name instead of a raw id
EdgePool == {Edge("e1", "go", "v1", "v2"), Edge("e2", null, "v2", "v9"),
             Edge("e3", null, "A", "v1")}

\* the lists of at most MaxElements elements of pool, none twice
Lists(pool) ==
    UNION {{l \in [1..n -> pool] : \A i, j \in 1..n : l[i] = l[j] => i = j}
             : n \in 0..MaxElements}

\* a sub-model: named or not, with or without a vertices collection, with
\* or without an edges collection
InputSubModels ==
    {SubModel(name, TRUE, V, TRUE, E) :
        name \in {null, "M"}, V \in Lists(VertexPool), E \in Lists(EdgePool)}
    \cup {SubModel(name, FALSE, <<>>, TRUE, E) :
        name \in {null, "M"}, E \in Lists(EdgePool)}
    \cup {SubModel(name, TRUE, V, FALSE, <<>>) :
        name \in {null, "M"}, V \in Lists(VertexPool)}
    \cup {SubModel(name, FALSE, <<>>, FALSE, <<>>) : name \in {null, "M"}}

\* another sub-model: one vertex, whose display name is "A" too, and no
\* edges collection
OtherSubModel == SubModel("N", TRUE, <<Vertex("v5", "A")>>, FALSE, <<>>)

\* the models arrays: a sub-model flat, wrapped in an unnamed or a named
\* container, and next to another sub-model in a container or flat
InputModels ==
    UNION {{ <<m>>,
             <<Container(null, <<m>>)>>,
             <<Container("outer", <<m>>)>>,
             <<Container(null, <<m, OtherSubModel>>)>>,
             <<m, OtherSubModel>> } : m \in InputSubModels}

InitConvert ==
    /\ InitSession /\ InitClient /\ InitPanel /\ InitText /\ InitConnect
    /\ rawModels \in InputModels
    /\ g6Data = NotConverted

\* const graphData = this.convertModelsToG6Data(models)
convert ==
    /\ ~g6Data.done
    /\ g6Data' = [done |-> TRUE,
                  nodes |-> convertModelsToG6Data(rawModels).nodes,
                  edges |-> convertModelsToG6Data(rawModels).edges]
    /\ UNCHANGED rawModels

NextAdapter == convert /\ UNCHANGED <<sessionVars, clientVars, panelVars, textVars, connectVars>>

SpecAdapter == InitConvert /\ [][NextAdapter]_vars

-----------------------------------------------------------------------------
(* SpecScale: one run of the model AB whose elements are visited up to     *)
(* MaxCount times each, and may be marked failed in between                *)

\* the elements the steps of the run are about
ScaleStepIds == {"A", "go"}

NextScale ==
    \/ handleStartMessage("AB") /\ UNCHANGED offSession
    \/ (\E id \in ScaleStepIds :
           /\ stepStarts[id] < MaxCount
           /\ handleStepStartMessageBody(id, null))
          /\ UNCHANGED offSession
    \/ updateStepUnhighlight /\ UNCHANGED offSession
    \/ updateStepCount /\ UNCHANGED offSession
    \/ updateStepCurrent /\ UNCHANGED offSession
    \/ updateStepColor /\ UNCHANGED offSession
    \/ updateStepHighlight /\ UNCHANGED offSession
    \/ handleStepEndMessage("A", TRUE) /\ UNCHANGED offSession

SpecScale == Init /\ [][NextScale]_vars

-----------------------------------------------------------------------------
(* SpecText: the session with the output text and the error texts of the   *)
(* page: what the handlers forward to them                                 *)

\* result.output and an error's message and trace: absent, empty, a text
Texts == {null, "", "text"}

\* the element a result or an error names: none, one of the graph, one of
\* no graph
TextIds == {null, "A", "v2"}

\* message.result of the step-end messages
StepEndResults ==
    {Result(id, output, FALSE, null, null) : id \in TextIds, output \in Texts}
    \cup {Result(id, output, TRUE, message, trace) :
             id \in TextIds, output \in {null, "text"},
             message \in Texts, trace \in {null, "text"}}

\* handleStartMessage, uiManager.clearOutput() and clearError() included
handleStartMessageClearingTexts(p) ==
    /\ handleStartMessage(p)
    /\ textAreas' = clearError(clearOutput(textAreas))
    /\ lastResult' = NoResult

\* handleStepEndMessage, what it hands to uiManager included
handleStepEndMessageForwarding(result) ==
    /\ Truthy(result.output) => Len(textAreas.outputText) < MaxLines
    /\ handleStepEndMessage(result.id, result.hasError)
    /\ textAreas' = forwardResult(textAreas, result)
    /\ lastResult' = result

\* handleErrorMessage, uiManager.updateError(...) included
handleErrorMessageForwarding(id, message, trace) ==
    /\ handleErrorMessage(id)
    /\ textAreas' = updateError(textAreas, Or(message, "Unknown error"), Or(trace, ""))
    /\ lastResult' = Result(id, null, TRUE, message, trace)

\* handleEndMessage, uiManager.appendOutput(...) included
handleEndMessageAppending(status) ==
    /\ Len(textAreas.outputText) < MaxLines
    /\ handleEndMessage(status)
    /\ textAreas' = appendOutput(textAreas, "\n=== Test Execution Completed ===")
    /\ lastResult' = NoResult

NextText ==
    \/ handleStartMessageClearingTexts("AB")
          /\ UNCHANGED <<clientVars, adapterVars, panelVars, connectVars>>
    \/ (\E result \in StepEndResults : handleStepEndMessageForwarding(result))
          /\ UNCHANGED <<clientVars, adapterVars, panelVars, connectVars>>
    \/ (\E id \in TextIds, message \in Texts :
           handleErrorMessageForwarding(id, message, null))
          /\ UNCHANGED <<clientVars, adapterVars, panelVars, connectVars>>
    \/ (\E status \in BOOLEAN : handleEndMessageAppending(status))
          /\ UNCHANGED <<clientVars, adapterVars, panelVars, connectVars>>

SpecText == Init /\ [][NextText]_vars

-----------------------------------------------------------------------------
(* SpecPanel: the session with the statistics section of the page: what   *)
(* handleStartMessage and handleEndMessage do to it                        *)

\* message.statistics of the end messages: none, the record of a failed and
\* of a passed run, and a record without any field
EndStatistics ==
    {Omitted,
     Statistics(TRUE, 1, 0, 1, 50, 1, 1, 100, 2, 0),
     Statistics(TRUE, 1, 1, 0, 100, 1, 0, 100, 2, 0),
     Statistics(TRUE, Absent, Absent, Absent, Absent, Absent, Absent,
                Absent, Absent, Absent)}

\* the start messages and the steps of the runs reported on
PanelPayloads == {"AB", "empty"}
PanelStepIds == {"A", "go"}

\* handleStartMessage, uiManager.hideStatisticsSection() included
handleStartMessageHidingStatistics(p) ==
    /\ handleStartMessage(p)
    /\ elements' = hideStatisticsSection(elements)
    /\ UNCHANGED lastStatistics

\* handleEndMessage, uiManager.showStatisticsSection() and
\* uiManager.updateStatistics(...) included
handleEndMessageWithStatistics(status, statistics) ==
    /\ handleEndMessage(status)
    /\ elements' = updateStatistics(showStatisticsSection(elements),
                                    StatisticsOfEnd(status, statistics))
    /\ lastStatistics' = statistics

NextPanel ==
    \/ (\E p \in PanelPayloads : handleStartMessageHidingStatistics(p))
          /\ UNCHANGED <<clientVars, adapterVars, textVars, connectVars>>
    \/ (\E id \in PanelStepIds : handleStepStartMessage(id, null))
          /\ UNCHANGED offSession
    \/ updateStepUnhighlight /\ UNCHANGED offSession
    \/ updateStepCount /\ UNCHANGED offSession
    \/ updateStepCurrent /\ UNCHANGED offSession
    \/ updateStepColor /\ UNCHANGED offSession
    \/ updateStepHighlight /\ UNCHANGED offSession
    \/ (\E status \in BOOLEAN, statistics \in EndStatistics :
           handleEndMessageWithStatistics(status, statistics))
          /\ UNCHANGED <<clientVars, adapterVars, textVars, connectVars>>

SpecPanel == Init /\ [][NextPanel]_vars

-----------------------------------------------------------------------------
(* Notions the properties are stated in *)

\* no handler is being run
Idle == pc = "idle"

\* the sub-models of a models array, in the order they are given
SubModelsIn(ms) == Concat([i \in 1..Len(ms) |-> ActualModels(ms[i])], 1)

\* the vertices of a sub-model, none when it has no vertices collection
VerticesOf(sub) == IF sub.hasVertices THEN sub.vertices ELSE <<>>

\* the edges of a sub-model, none when it has no edges collection
EdgesOf(sub) == IF sub.hasEdges THEN sub.edges ELSE <<>>

\* every vertex of a models array, each with the sub-model it is of
VerticesIn(ms) ==
    LET subs == SubModelsIn(ms)
    IN  Concat([j \in 1..Len(subs) |->
                  [k \in 1..Len(VerticesOf(subs[j])) |->
                      [vertex |-> VerticesOf(subs[j])[k], sub |-> subs[j]]]], 1)

\* every edge of a models array, each with the sub-model it is of
EdgesIn(ms) ==
    LET subs == SubModelsIn(ms)
    IN  Concat([j \in 1..Len(subs) |->
                  [k \in 1..Len(EdgesOf(subs[j])) |->
                      [edge |-> EdgesOf(subs[j])[k], sub |-> subs[j]]]], 1)

\* the elements of a kind ("node", "edge") the graph holds
ElementsOfKind(kind) == {e \in DOMAIN items : items[e].type = kind}

\* those of them counted at least once
VisitedOfKind(kind) == {e \in ElementsOfKind(kind) : CountOf(visitCounts, e) >= 1}

\* Math.round(visited / total * 100), 0 when total is 0
Percentage(visited, total) ==
    IF total = 0 THEN 0 ELSE (200 * visited + total) \div (2 * total)

\* the display name of an element when it has one, its raw id otherwise
Canonical(element) == IF element.name # null THEN element.name ELSE element.id

\* the canonical id of the vertex of sub whose raw id is ref; ref itself
\* when sub has no such vertex
ExpectedEnd(sub, ref) ==
    LET V == VerticesOf(sub)
        hits == {i \in 1..Len(V) : V[i].id = ref}
    IN  IF hits = {} THEN ref
        ELSE Canonical(V[CHOOSE i \in hits : \A j \in hits : i <= j])

\* the elements drawn with the "current" emphasis (lineWidth 4)
Highlighted == {e \in DOMAIN items : items[e].lineWidth = 4}

\* the identifier the step-start handled last referred to
LastStepRef == ReferencedId(last.id, last.name)

\* the start message handled last carried at least one model
LastStartHadModels == HasModelsField(last.payload) /\ Len(ModelsOf(last.payload)) > 0

\* the handler run last has called markElementAsFailed(last.id)
LastMarkedFailed ==
    /\ Idle
    /\ \/ last.type = "step-end" /\ last.error
       \/ last.type = "error"
    /\ Truthy(last.id)

\* the nodes of the models held, as convertModelsToG6Data lists them
NodesHeld == LET nodes == convertModelsToG6Data(models).nodes
             IN  {nodes[i] : i \in 1..Len(nodes)}

\* the element ids the two model payloads are to yield
ExpectedIds(p) == IF p = "AB" THEN {"A", "B", "go"}
                  ELSE IF p = "CD" THEN {"v3", "D", "e2"}
                  ELSE {}

\* the item is drawn in the failure colour
HasFailureColour(item) ==
    /\ item.fill = FailedFill
    /\ item.stroke = IF item.type = "node" THEN FailedStroke ELSE FailedFill

\* the session a handler leaves when it is run from its first line to its
\* last on the session snap with the message m, nothing else running meanwhile
Sequentially(snap, m) ==
    LET this == [models |-> snap.models, visitCounts |-> snap.visitCounts,
                 currentStepId |-> snap.currentStepId, failedStepId |-> snap.failedStepId,
                 items |-> snap.items, calls |-> <<>>]
        after == IF m.type = "start"
                 THEN IF HasModelsField(m.payload) /\ Len(ModelsOf(m.payload)) > 0
                      THEN setModels(this, ModelsOf(m.payload)) ELSE this
                 ELSE IF m.type = "step-start"
                 THEN updateStep(this, ReferencedId(m.id, m.name))
                 ELSE IF m.type = "step-end"
                 THEN IF m.error /\ Truthy(m.id) THEN markElementAsFailed(this, m.id) ELSE this
                 ELSE IF m.type = "error"
                 THEN IF Truthy(m.id) THEN markElementAsFailed(this, m.id) ELSE this
                 ELSE this
    IN  [models |-> after.models, visitCounts |-> after.visitCounts,
         currentStepId |-> after.currentStepId, failedStepId |-> after.failedStepId,
         items |-> after.items,
         isRunning |-> IF m.type = "start" THEN TRUE
                       ELSE IF m.type = "end" THEN FALSE ELSE snap.isRunning]

\* the handler run last found the run ended: isRunning is false only before
\* the first start message and after an end message, and models are held
\* only once a start message has been handled
EndedBefore == ~before.isRunning /\ Len(before.models) > 0

-----------------------------------------------------------------------------
(* C1: between two handlers, for every element of the graph, its visit    *)
(* count equals the number of step-start messages that referred to it     *)
(* since the last start message (whatever its models payload) or clear(). *)
C1_VisitCountIsNumberOfStepStarts ==
    Idle => \A e \in DOMAIN items \cap Refs : CountOf(visitCounts, e) = stepStarts[e]

(* C2: in every state, the intermediate states of updateStep included, at *)
(* most one element is highlighted and a highlighted element is           *)
(* currentStepId; and a visit that found another element current has      *)
(* first switched that one's highlight off and last switched the new      *)
(* one's on.                                                               *)
C2_OneHighlightOffBeforeOn ==
    /\ Cardinality(Highlighted) <= 1
    /\ \A e \in Highlighted : e = currentStepId
    /\ (Idle /\ last.type = "step-start" /\ updateStepProceeds(before, LastStepRef))
         => /\ Highlighted = {LastStepRef}
            /\ calls[Len(calls)] = Call("updateItem", LastStepRef, "lineWidth 4")
            /\ Truthy(before.currentStepId)
                 => calls[1] = Call("updateItem", before.currentStepId, "lineWidth 2")

\* a visit of an element while another one was current and highlighted
C2_Witness ==
    /\ Idle /\ last.type = "step-start"
    /\ Truthy(before.currentStepId)
    /\ before.currentStepId # currentStepId
    /\ before.items[before.currentStepId].lineWidth = 4
    /\ Highlighted = {currentStepId}

(* C3: after any start message has been handled, visitCounts is empty and *)
(* currentStepId and failedStepId are null.                               *)
C3_StartResetsSession ==
    (Idle /\ last.type = "start")
        => /\ visitCounts = EmptyObject
           /\ currentStepId = null
           /\ failedStepId = null

(* C4: a start message carrying a non-empty model leaves visitCounts      *)
(* empty, currentStepId and failedStepId null and the graph holding       *)
(* exactly the elements of the new model, each drawn as new; when the     *)
(* new model shares no element with the former graph, none of the former  *)
(* elements remains.                                                       *)
C4_StartWithModelReplacesRun ==
    (Idle /\ last.type = "start" /\ LastStartHadModels)
        => /\ visitCounts = EmptyObject
           /\ currentStepId = null
           /\ failedStepId = null
           /\ DOMAIN items = ExpectedIds(last.payload)
           /\ \A e \in DOMAIN items : items[e] \in {NodeItem, EdgeItem}
           /\ (ExpectedIds(last.payload) \cap DOMAIN before.items = {})
                => DOMAIN items \cap DOMAIN before.items = {}

\* the start of the second model after a run of the first one that had
\* visits and a failure and was ended
C4_Witness ==
    /\ Idle /\ last.type = "start" /\ last.payload = "CD"
    /\ ~before.isRunning
    /\ "A" \in DOMAIN before.items
    /\ before.visitCounts # EmptyObject
    /\ Truthy(before.currentStepId)
    /\ Truthy(before.failedStepId)
    /\ \E e \in DOMAIN before.items : HasFailureColour(before.items[e])

(* C5: a step-start that refers to a vertex of the graph by its raw id or *)
(* by its display name (the two being different) makes that vertex's      *)
(* canonical id the current element and increments its visit count.       *)
C5_RawIdAndNameReachSameElement ==
    (Idle /\ last.type = "step-start")
        => \A n \in NodesHeld :
              (/\ n.originalId # n.id
               /\ findById(before.items, n.id)
               /\ LastStepRef \in {n.originalId, n.id})
                 => /\ currentStepId = n.id
                    /\ CountOf(visitCounts, n.id) = CountOf(before.visitCounts, n.id) + 1

(* C6: in every state, every key of visitCounts, currentStepId when not   *)
(* null and failedStepId when not null is the id of an element of the     *)
(* graph.                                                                  *)
C6_IdentifiersAreGraphElements ==
    /\ DOMAIN visitCounts \subseteq DOMAIN items
    /\ Truthy(currentStepId) => findById(items, currentStepId)
    /\ Truthy(failedStepId) => findById(items, failedStepId)

(* C7: a step-start whose identifier is not the id of an element of the   *)
(* graph leaves visitCounts, currentStepId, failedStepId and every item   *)
(* of the graph (highlight and colour) as they were and makes no call     *)
(* that changes the graph.                                                 *)
C7_UnresolvedStepStartChangesNothing ==
    (last.type = "step-start" /\ Truthy(LastStepRef) /\ ~findById(before.items, LastStepRef))
        => /\ Idle
           /\ visitCounts = before.visitCounts
           /\ currentStepId = before.currentStepId
           /\ failedStepId = before.failedStepId
           /\ items = before.items
           /\ calls = <<>>

\* a step-start by the raw id v1 while the graph, which holds that vertex
\* as A, has counts and a highlighted current element
C7_Witness ==
    /\ Idle /\ last.type = "step-start" /\ LastStepRef = "v1"
    /\ findById(items, "A")
    /\ CountOf(visitCounts, "A") > 0
    /\ Highlighted # {}

(* C8: marking failed by the raw id of a vertex that has a display name   *)
(* makes failedStepId that vertex's canonical id.                         *)
C8_FailedByRawIdIsCanonical ==
    LastMarkedFailed
        => \A n \in NodesHeld :
              (n.originalId # n.id /\ findById(items, n.id) /\ last.id = n.originalId)
                 => failedStepId = n.id

(* C9: marking an element failed leaves visitCounts and currentStepId as  *)
(* they were and sets failedStepId to the element reported, whether or    *)
(* not it is the current one.                                              *)
C9_MarkFailedFrame ==
    LastMarkedFailed
        => /\ visitCounts = before.visitCounts
           /\ currentStepId = before.currentStepId
           /\ failedStepId = last.id

\* the current element, visited before, is marked failed: current and failed at once
C9_Witness ==
    /\ LastMarkedFailed
    /\ last.id = currentStepId
    /\ failedStepId = currentStepId
    /\ CountOf(visitCounts, currentStepId) > 0
    /\ HasFailureColour(items[currentStepId])

(* C10: an element drawn in the failure colour is still drawn in it after *)
(* every handler that does not rebuild the graph (a start carrying models *)
(* and clear() rebuild it).                                                *)
C10_FailureColourPersists ==
    (Idle /\ ~(last.type = "clear") /\ ~(last.type = "start" /\ LastStartHadModels))
        => \A e \in DOMAIN before.items :
              HasFailureColour(before.items[e])
                 => findById(items, e) /\ HasFailureColour(items[e])

(* C11: once an end message has been handled, no element of the graph is  *)
(* drawn with the highlight of the current element.                       *)
C11_NoLiveHighlightAfterEnd ==
    (Idle /\ last.type = "end") => Highlighted = {}

(* C12: isRunning is true after a start message and false after an end    *)
(* message, and every other handler leaves it as it found it; a           *)
(* step-start that follows a failure in a run not yet ended is still      *)
(* applied to the element it refers to.                                    *)
C12_RunStateFollowsStartAndEnd ==
    /\ last.type = "start" => isRunning
    /\ last.type = "end" => ~isRunning
    /\ last.type \notin {"start", "end"} => isRunning = before.isRunning
    /\ (/\ Idle /\ last.type = "step-start"
        /\ before.isRunning /\ Truthy(before.failedStepId)
        /\ updateStepProceeds(before, LastStepRef))
         => /\ isRunning
            /\ currentStepId = LastStepRef
            /\ CountOf(visitCounts, LastStepRef)
                  = CountOf(before.visitCounts, LastStepRef) + 1

\* a step-start applied in a running run one of whose elements was marked
\* failed and is drawn so
C12_Witness ==
    /\ Idle /\ last.type = "step-start"
    /\ isRunning /\ before.isRunning
    /\ Truthy(before.failedStepId)
    /\ findById(before.items, before.failedStepId)
    /\ HasFailureColour(before.items[before.failedStepId])
    /\ currentStepId = LastStepRef
    /\ CountOf(visitCounts, LastStepRef) = CountOf(before.visitCounts, LastStepRef) + 1

(* C13: a step-start handled after an end message and before the next     *)
(* start message leaves visitCounts and currentStepId as they were.       *)
C13_StepStartAfterEndNotApplied ==
    (Idle /\ last.type = "step-start" /\ EndedBefore)
        => /\ visitCounts = before.visitCounts
           /\ currentStepId = before.currentStepId

(* C14: message events are run in the order of their arrival, each when   *)
(* no handler is being run, and once the handler of a message has         *)
(* returned the session is what that handler, run alone from its first    *)
(* line to its last on the session it found, leaves.                      *)
C14_HandledOneAtATimeInOrder ==
    /\ [](\A i \in 1..Len(inbox) : inbox[i].no = taken + i)
    /\ []((Idle /\ outcome = "handled") => Snapshot = Sequentially(before, last))
    /\ [][taken' # taken
            => /\ pc = "idle"
               /\ inbox # <<>>
               /\ taken' = taken + 1
               /\ Head(inbox).no = taken']_vars

\* the third message, a step-start, has been applied to the element the
\* second one had made current
C14_Witness ==
    /\ Idle /\ outcome = "handled" /\ last.type = "step-start"
    /\ taken >= 3
    /\ currentStepId = LastStepRef
    /\ CountOf(visitCounts, LastStepRef) = 2
    /\ Highlighted = {LastStepRef}

(* C15: a socket that is open has been sent init and then start and       *)
(* nothing else, a socket not yet open has been sent nothing, both are    *)
(* sent in the step that opens the socket, in which no message event is   *)
(* run, and every message event queued or run came from a socket that     *)
(* had been sent both.                                                     *)
C15_InitThenStartOncePerOpen ==
    /\ [](\A s \in Sockets :
            /\ readyState[s] = "open" => sent[s] = <<"init", "start">>
            /\ readyState[s] \in {"none", "connecting"} => sent[s] = <<>>
            /\ sent[s] \in {<<>>, <<"init", "start">>})
    /\ [](\A i \in 1..Len(inbox) : sent[inbox[i].sock] = <<"init", "start">>)
    /\ [](origin # 0 => sent[origin] = <<"init", "start">>)
    /\ [][\A s \in Sockets :
            (readyState[s] = "connecting" /\ readyState'[s] = "open")
               => /\ sent'[s] = <<"init", "start">>
                  /\ taken' = taken
                  /\ inbox' = inbox]_vars

\* a second connection is open beside the first, each was sent init and
\* start once, and messages of both have been handled or are queued
C15_Witness ==
    /\ \A s \in {1, 2} : readyState[s] = "open" /\ sent[s] = <<"init", "start">>
    /\ origin = 1
    /\ inbox # <<>> /\ Head(inbox).sock = 2
    /\ taken >= 1

(* C16: when the handler of a message throws (a step-start without step,  *)
(* a step-end without result), visitCounts, currentStepId, failedStepId,  *)
(* the graph and isRunning are as they were before that message and no    *)
(* handler is left running; and a message handled after such a failure    *)
(* is handled as it is without one.                                        *)
C16_HandlerFailureIsContained ==
    /\ (outcome = "threw" /\ last.payload = "absent")
         => Idle /\ Snapshot = before /\ calls = <<>>
    /\ (Idle /\ caught /\ outcome = "handled") => Snapshot = Sequentially(before, last)

\* a step-end without result makes its handler throw in a running run with
\* a visited, highlighted current element
C16_Witness ==
    /\ outcome = "threw" /\ last.type = "step-end" /\ last.payload = "absent"
    /\ isRunning
    /\ Highlighted = {currentStepId}
    /\ CountOf(visitCounts, currentStepId) > 0

(* C17: a frame that JSON.parse rejects is discarded: no handler is run,  *)
(* no call is made on the graph and models, visitCounts, currentStepId,   *)
(* failedStepId, the graph and isRunning are as they were.                *)
C17_UnparseableFrameIsDiscarded ==
    outcome = "unparsed"
        => /\ Idle
           /\ last.type = "unparsed"
           /\ Snapshot = before
           /\ calls = <<>>

\* an unparseable frame arrives in a running run with a visited, highlighted
\* current element
C17_Witness ==
    /\ outcome = "unparsed"
    /\ isRunning
    /\ Highlighted = {currentStepId}
    /\ CountOf(visitCounts, currentStepId) > 0

(* C18: a message whose type is none of start, step-start, step-end, end  *)
(* and error changes nothing of the session and of the graph and raises   *)
(* no error.                                                               *)
C18_UnknownTypeIsIgnored ==
    (outcome # "none" /\ last.type \notin OwnHandlers \cup {"unparsed"})
        => /\ Idle
           /\ outcome # "threw"
           /\ Snapshot = before
           /\ calls = <<>>

(* C19: a step-start whose step has neither id nor name makes no call on  *)
(* the graph, leaves visitCounts, currentStepId, failedStepId and the     *)
(* graph as they were and does not throw.                                  *)
C19_StepWithoutIdAndNameIsSkipped ==
    (/\ outcome # "none" /\ last.type = "step-start"
     /\ last.payload # "absent" /\ ~Truthy(last.id) /\ ~Truthy(last.name))
        => /\ Idle
           /\ outcome = "handled"
           /\ Snapshot = before
           /\ calls = <<>>

\* such a step-start arrives in a run with a visited, highlighted current element
C19_Witness ==
    /\ outcome = "handled" /\ last.type = "step-start"
    /\ last.payload # "absent" /\ ~Truthy(last.id) /\ ~Truthy(last.name)
    /\ isRunning
    /\ Highlighted = {currentStepId}
    /\ CountOf(visitCounts, currentStepId) > 0

\* the error and close events of a socket leave the session and the graph
\* as they are
ErrorAndCloseLeaveSession ==
    [][(\E s \in Sockets : readyState'[s] \in {"failed", "closed"}
                             /\ readyState'[s] # readyState[s])
         => /\ ~connected'
            /\ UNCHANGED <<models, visitCounts, currentStepId, failedStepId, items,
                           isRunning, sent, ws>>]_vars

(* C20: a start message that finds a run underway and is handled on a     *)
(* connection made after an earlier socket failed or was closed leaves    *)
(* visitCounts empty and currentStepId and failedStepId null.             *)
C20_StartOnNewConnectionIsClean ==
    (/\ Idle /\ outcome = "handled" /\ last.type = "start"
     /\ before.isRunning /\ Len(before.models) > 0
     /\ origin = ws
     /\ \E s \in 1..(origin - 1) : readyState[s] \in {"failed", "closed"})
        => /\ visitCounts = EmptyObject
           /\ currentStepId = null
           /\ failedStepId = null

(* C21: in every step a visit count stays as it is or grows by exactly 1, *)
(* unless the step is the handling of a start message or clear(), which   *)
(* may drop it to absent; and a handler other than these leaves every     *)
(* count as it found it or one higher.                                     *)
C21_VisitCountsNeverDecrease ==
    /\ [][\A e \in DOMAIN visitCounts \cup DOMAIN visitCounts' :
            \/ CountOf(visitCounts', e) = CountOf(visitCounts, e)
            \/ CountOf(visitCounts', e) = CountOf(visitCounts, e) + 1
            \/ /\ pc = "idle" /\ pc' = "idle"
               /\ last'.type \in {"start", "clear"}
               /\ CountOf(visitCounts', e) = 0]_vars
    /\ []((Idle /\ last.type \notin {"start", "clear"})
            => \A e \in DOMAIN visitCounts \cup DOMAIN before.visitCounts :
                  CountOf(visitCounts, e) - CountOf(before.visitCounts, e) \in {0, 1})

\* updateStep has just raised the count of an element from 1 to 2 while
\* another element has a count too
C21_Witness ==
    /\ pc = "current"
    /\ CountOf(visitCounts, arg) = 2
    /\ CountOf(before.visitCounts, arg) = 1
    /\ \E e \in DOMAIN visitCounts : e # arg /\ visitCounts[e] = 1

(* C30: a start message whose models field is an empty list, handled      *)
(* while the graph shows the elements of a former run, leaves the graph   *)
(* without any element.                                                    *)
C30_EmptyStartRendersNothing ==
    (/\ Idle /\ last.type = "start"
     /\ HasModelsField(last.payload)
     /\ Len(convertModelsToG6Data(ModelsOf(last.payload)).nodes) = 0
     /\ before.items # NoItems)
        => items = NoItems

-----------------------------------------------------------------------------
(* C22: convertModelsToG6Data gives the same nodes and the same edges,    *)
(* field for field and the owning model name included, for a flat model   *)
(* [m] and for the same sub-model wrapped one level deep, [{models: [m]}]. *)
C22_FlatAndWrappedAlike ==
    (/\ g6Data.done /\ Len(rawModels) = 1 /\ ~rawModels[1].hasModels)
        => LET wrapped == convertModelsToG6Data(<<Container(null, <<rawModels[1]>>)>>)
           IN  /\ g6Data.nodes = wrapped.nodes
               /\ g6Data.edges = wrapped.edges

(* C23: every edge of the edge list convertModelsToG6Data returns has a   *)
(* source and a target that are each the node of a vertex of the edge's   *)
(* own sub-model: an edge whose sourceVertexId or targetVertexId matches   *)
(* no vertex of its sub-model is not in the list.                          *)
C23_NoDanglingEdge ==
    g6Data.done
        => /\ Len(g6Data.edges) <= Len(EdgesIn(rawModels))
           /\ \A k \in 1..Len(g6Data.edges) :
                 \E i \in 1..Len(EdgesIn(rawModels)) :
                    LET in == EdgesIn(rawModels)[i]
                        raw == {VerticesOf(in.sub)[n].id :
                                   n \in 1..Len(VerticesOf(in.sub))}
                    IN  /\ g6Data.edges[k].originalId = in.edge.id
                        /\ in.edge.sourceVertexId \in raw
                        /\ in.edge.targetVertexId \in raw

(* C24: whenever the raw ids of the vertices given to                      *)
(* convertModelsToG6Data are pairwise distinct, the ids of the nodes it    *)
(* returns are pairwise distinct too, also for vertices that share a       *)
(* display name.                                                           *)
C24_NodeIdsDistinct ==
    (/\ g6Data.done
     /\ \A i, j \in 1..Len(VerticesIn(rawModels)) :
           VerticesIn(rawModels)[i].vertex.id = VerticesIn(rawModels)[j].vertex.id
               => i = j)
        => \A i, j \in 1..Len(g6Data.nodes) :
              g6Data.nodes[i].id = g6Data.nodes[j].id => i = j

(* C25: convertModelsToG6Data returns one node for every vertex and one   *)
(* edge for every edge it is given, in the order given, and the id of      *)
(* each is the display name of the element when it has one and its raw id  *)
(* otherwise.                                                              *)
C25_CanonicalIds ==
    g6Data.done
        => /\ Len(g6Data.nodes) = Len(VerticesIn(rawModels))
           /\ Len(g6Data.edges) = Len(EdgesIn(rawModels))
           /\ \A i \in 1..Len(g6Data.nodes) :
                 /\ g6Data.nodes[i].originalId = VerticesIn(rawModels)[i].vertex.id
                 /\ g6Data.nodes[i].id = Canonical(VerticesIn(rawModels)[i].vertex)
           /\ \A k \in 1..Len(g6Data.edges) :
                 /\ g6Data.edges[k].originalId = EdgesIn(rawModels)[k].edge.id
                 /\ g6Data.edges[k].id = Canonical(EdgesIn(rawModels)[k].edge)

\* a named and an unnamed vertex, a named and an unnamed edge, converted
C25_Witness ==
    /\ g6Data.done
    /\ \E i, j \in 1..Len(g6Data.nodes) :
          /\ g6Data.nodes[i].id = "A" /\ g6Data.nodes[i].originalId = "v1"
          /\ g6Data.nodes[j].id = "v2" /\ g6Data.nodes[j].originalId = "v2"
    /\ \E i, j \in 1..Len(g6Data.edges) :
          /\ g6Data.edges[i].id = "go" /\ g6Data.edges[i].originalId = "e1"
          /\ g6Data.edges[j].id = "e2" /\ g6Data.edges[j].originalId = "e2"

(* C26: the source (the target) of every edge convertModelsToG6Data        *)
(* returns is the canonical id of the vertex of the edge's own sub-model   *)
(* whose raw id is the edge's sourceVertexId (targetVertexId), and that    *)
(* reference itself when the sub-model has no such vertex; a sub-model     *)
(* without a vertices or an edges collection contributes no node or no     *)
(* edge.                                                                   *)
C26_EdgeEnds ==
    g6Data.done
        => /\ Len(g6Data.nodes) = Len(VerticesIn(rawModels))
           /\ Len(g6Data.edges) = Len(EdgesIn(rawModels))
           /\ \A k \in 1..Len(g6Data.edges) :
                 LET in == EdgesIn(rawModels)[k]
                 IN  /\ g6Data.edges[k].source =
                           ExpectedEnd(in.sub, in.edge.sourceVertexId)
                     /\ g6Data.edges[k].target =
                           ExpectedEnd(in.sub, in.edge.targetVertexId)

\* an edge from a named vertex to an unnamed one and an edge to a vertex
\* that is not there, next to a sub-model without an edges collection
C26_Witness ==
    /\ g6Data.done
    /\ Len(rawModels) = 1 /\ rawModels[1].hasModels
    /\ Len(rawModels[1].models) = 2 /\ ~rawModels[1].models[2].hasEdges
    /\ \E i, j \in 1..Len(g6Data.edges) :
          /\ g6Data.edges[i].originalId = "e1"
          /\ g6Data.edges[i].source = "A" /\ g6Data.edges[i].target = "v2"
          /\ g6Data.edges[j].originalId = "e2"
          /\ g6Data.edges[j].source = "v2" /\ g6Data.edges[j].target = "v9"

-----------------------------------------------------------------------------
(* C27: after an end message without statistics the edge coverage and the *)
(* vertex coverage the page reports are computed from the session's own   *)
(* graph and visitCounts: round(visited / total * 100) with visited the    *)
(* number of elements of the kind counted at least once, 0 when the total  *)
(* is 0.                                                                   *)
C27_CoverageFromSession ==
    (/\ Idle /\ last.type = "end" /\ ~lastStatistics.given)
        => /\ elements.statsEdgeCoverage =
                 Percentage(Cardinality(VisitedOfKind("edge")),
                            Cardinality(ElementsOfKind("edge")))
           /\ elements.statsVertexCoverage =
                 Percentage(Cardinality(VisitedOfKind("node")),
                            Cardinality(ElementsOfKind("node")))

(* C28: after an end message with status s and a statistics record S the  *)
(* page reports Passed when s is true and Failed when s is false, in the   *)
(* statistics section now shown, and every figure S has is reported as S   *)
(* has it.                                                                 *)
C28_EndReportsStatistics ==
    (/\ Idle /\ last.type = "end" /\ lastStatistics.given)
        => LET S == lastStatistics
               Reports(shown, field) == field # Absent => shown = field
           IN  /\ ~elements.statisticsSectionHidden
               /\ elements.statsStatus = IF last.status THEN "Passed" ELSE "Failed"
               /\ Reports(elements.statsModelsTotal, S.totalNumberOfModels)
               /\ Reports(elements.statsModelsCompleted, S.totalCompletedNumberOfModels)
               /\ Reports(elements.statsModelsFailed, S.totalFailedNumberOfModels)
               /\ Reports(elements.statsEdgeCoverage, S.edgeCoverage)
               /\ Reports(elements.statsEdgesVisited, S.totalNumberOfVisitedEdges)
               /\ Reports(elements.statsEdgesUnvisited, S.totalNumberOfUnvisitedEdges)
               /\ Reports(elements.statsVertexCoverage, S.vertexCoverage)
               /\ Reports(elements.statsVerticesVisited, S.totalNumberOfVisitedVertices)
               /\ Reports(elements.statsVerticesUnvisited, S.totalNumberOfUnvisitedVertices)

\* a run with a step ends with status false and edgeCoverage 50
C28_Witness ==
    /\ Idle /\ last.type = "end" /\ ~last.status
    /\ lastStatistics.given /\ lastStatistics.edgeCoverage = 50
    /\ lastStatistics.vertexCoverage = 100
    /\ elements.statsStatus = "Failed" /\ elements.statsEdgeCoverage = 50
    /\ before.isRunning /\ DOMAIN visitCounts # {}

(* C29: once a start message that follows a finished run, one that had    *)
(* steps, has been handled, the page reports neither Passed nor Failed:    *)
(* the start message clears the status of the finished run.                *)
C29_StartClearsStatus ==
    (/\ Idle /\ last.type = "start"
     /\ ~before.isRunning /\ DOMAIN before.visitCounts # {})
        => elements.statsStatus \notin {"Passed", "Failed"}

-----------------------------------------------------------------------------
(* C31: after clear(), in whatever state it is called, the session is as   *)
(* if no run had started: visitCounts is empty, there is no current and    *)
(* no failed element, the graph holds no element and the visualizer holds  *)
(* no model of the previous run.                                           *)
C31_ClearResetsEverything ==
    (Idle /\ last.type = "clear")
        => /\ visitCounts = EmptyObject
           /\ currentStepId = null
           /\ failedStepId = null
           /\ items = NoItems
           /\ models = <<>>

(* C32: the visit colour depends only on min(count, 5): the scale gives    *)
(* the neutral starting colour for 0 and the same colour for a count       *)
(* above 5 as for 5, and once a step-start has visited an element the      *)
(* element is drawn in the colour of its new count, the full-saturation    *)
(* colour from the fifth visit on.                                         *)
C32_ColourOfTheNewCount ==
    /\ colorScale(0) = ScaleFrom
    /\ \A e \in DOMAIN visitCounts :
          colorScale(visitCounts[e]) =
              colorScale(IF visitCounts[e] > ScaleDomainMax THEN ScaleDomainMax
                         ELSE visitCounts[e])
    /\ (/\ Idle /\ last.type = "step-start"
        /\ CountOf(visitCounts, LastStepRef) = CountOf(before.visitCounts, LastStepRef) + 1)
          => LET n == visitCounts[LastStepRef]
                 k == IF n > ScaleDomainMax THEN ScaleDomainMax ELSE n
                 item == items[LastStepRef]
             IN  /\ item.fill = colorScale(k) /\ item.stroke = colorScale(k)
                 /\ n >= ScaleDomainMax => item.fill = ScaleTo /\ item.stroke = ScaleTo
                 /\ n < ScaleDomainMax => item.fill # ScaleTo

\* the sixth visit of an element, which had been marked failed before
C32_Witness ==
    /\ Idle /\ last.type = "step-start" /\ LastStepRef = "A"
    /\ CountOf(before.visitCounts, "A") = ScaleDomainMax
    /\ CountOf(visitCounts, "A") = ScaleDomainMax + 1
    /\ items["A"].fill = ScaleTo
    /\ failedStepId = "A"
    /\ CountOf(visitCounts, "go") \in 1..(ScaleDomainMax - 1)

(* C33: the handling of a step-end message appends the output the result   *)
(* carries to the output text; when the result carries an error it sets    *)
(* the error texts to the error's message, "Unknown error" when it has     *)
(* none, and to its trace, and makes the element the result names the      *)
(* failed one; when the result names no element the error texts are set    *)
(* all the same and failedStepId is left as it was.                        *)
C33_StepEndForwards ==
    [][last'.type = "step-end"
        => LET result == lastResult'
           IN  /\ textAreas'.outputText =
                     IF result.output \notin {null, ""}
                     THEN Append(textAreas.outputText, result.output)
                     ELSE textAreas.outputText
               /\ result.hasError
                     => /\ textAreas'.errorMessage =
                              IF result.message \in {null, ""} THEN "Unknown error"
                              ELSE result.message
                        /\ textAreas'.errorTrace =
                              IF result.trace = null THEN "" ELSE result.trace
                        /\ result.id # null
                              => /\ failedStepId' = result.id
                                 /\ result.id \in DOMAIN items
                                       => HasFailureColour(items'[result.id])
                        /\ result.id = null => failedStepId' = failedStepId
               /\ ~result.hasError
                     => /\ failedStepId' = failedStepId
                        /\ textAreas'.errorMessage = textAreas.errorMessage
                        /\ textAreas'.errorTrace = textAreas.errorTrace]_vars

\* a step-end without element id whose error has no message, with output,
\* handled while another element is the failed one
C33_Witness ==
    /\ "A" \in DOMAIN items
    /\ Idle /\ last.type = "step-end"
    /\ lastResult.hasError /\ lastResult.id = null /\ lastResult.message = null
    /\ lastResult.output = "text"
    /\ textAreas.errorMessage = "Unknown error"
    /\ textAreas.outputText = <<"text", "text">>
    /\ failedStepId = "A" /\ "A" \in DOMAIN items /\ HasFailureColour(items["A"])

(* C34: whatever connect() calls and open, error and close events of the   *)
(* sockets have happened, the client reports itself connected exactly      *)
(* when the socket created last is open.                                   *)
C34_NewestSocketDecides ==
    connected <=> (ws # 0 /\ readyState[ws] = "open")

====
